---- MODULE Spec2Model ----
(***************************************************************************)
(* Model of the endodoncia static-site tooling:                            *)
(*   - deploy.py : the publisher (main, upload_directory_to_s3,             *)
(*                 invalidate_cloudfront), run one or more times in a row;  *)
(*   - build.py  : build(), which replaces the dist/ tree between runs;     *)
(*   - serve.py  : the preview server (serve_site and its entry point).     *)
(* Text is modelled as sequences of one-character strings, so that         *)
(* concatenation, prefixes and suffixes are computed, not assumed.          *)
(***************************************************************************)
EXTENDS Integers, Sequences, FiniteSets, TLC

VARIABLES
    env,          \* the publisher's environment variables
    dist,         \* the dist/ tree: NoDist, or [files, gen]
    remote,       \* the bucket: key -> [body, ctype]
    run,          \* number of the current publish invocation
    pc,           \* phase of the current publish invocation
    todo,         \* entries of DIST_DIR.rglob("*") not yet visited
    uploadCalls,  \* s3.upload_file calls of this invocation, in order
    invCalls,     \* cf.create_invalidation calls of this invocation, in order
    exit,         \* how this invocation ended (NoExit while running)
    prevPublished,\* dist and bucket as the last completed upload phase left them
    spc,          \* serve.py: position of the process
    argv,         \* serve.py: the command-line argument
    port,         \* serve.py: the port serve_site was called with
    portState,    \* serve.py: what binding the port will meet
    distServed,   \* serve.py: Path(__file__).parent / "dist" exists
    interrupts,   \* serve.py: interrupt signals delivered to the process
    served,       \* serve.py: requests handled by serve_forever
    output        \* serve.py: the lines printed, in order

pvars == <<env, dist, remote, run, pc, todo, uploadCalls, invCalls, exit, prevPublished>>
svars == <<spc, argv, port, portState, distServed, interrupts, served, output>>
vars == <<pvars, svars>>

----------------------------------------------------------------------------
(* Bounds *)

MaxRuns == 2
MaxFiles == 2
MaxGen == 2
MaxRef == 1
MaxRequests == 2

----------------------------------------------------------------------------
(* Text *)

Slash == "/"
Dot == "."

\* str.rfind('.'), 1-based; 0 when there is no dot
RFindDot(name) ==
    LET hits == {i \in 1..Len(name) : name[i] = Dot}
    IN  IF hits = {} THEN 0 ELSE CHOOSE i \in hits : \A j \in hits : j <= i

\* PurePath.suffix: the final component from its last dot on, unless that dot
\* is the first or the last character of the name
Suffix(name) ==
    LET i == RFindDot(name)
    IN  IF 1 < i /\ i < Len(name) THEN SubSeq(name, i, Len(name)) ELSE << >>

RECURSIVE JoinWith(_, _)
JoinWith(parts, sep) ==
    IF Len(parts) = 0 THEN << >>
    ELSE IF Len(parts) = 1 THEN parts[1]
    ELSE parts[1] \o <<sep>> \o JoinWith(Tail(parts), sep)

\* PurePath.as_posix() of a relative path given by its parts
AsPosix(parts) == JoinWith(parts, Slash)

----------------------------------------------------------------------------
(* Values *)

NoValue == "<unset>"          \* os.environ.get(...) returned None
NoArgument == <<NoValue>>     \* len(sys.argv) = 1

\* `not x` for an Optional[str]
FalsyNoneOnly(x) == x = NoValue
Falsy(x) == x = NoValue \/ x = ""

DistDir == << <<"d", "i", "s", "t">> >>      \* DIST_DIR, as path parts

FileBHtml == DistDir \o << <<"a">>, <<"b", ".", "h", "t", "m", "l">> >>
FileCss == DistDir \o << <<"s", "t", "y", "l", "e", "s", ".", "c", "s", "s">> >>
FileJs == DistDir \o << <<"a", "p", "p", ".", "j", "s">> >>
FileJson == DistDir \o << <<"d", "a", "t", "a", ".", "j", "s", "o", "n">> >>
FileDotHtml == DistDir \o << <<".", "h", "t", "m", "l">> >>

CandidateFiles == {FileBHtml, FileCss, FileJs, FileJson, FileDotHtml}

NoDist == [exists |-> FALSE, files |-> {}, gen |-> 0]

\* a built tree: its files, and the generation of the sources it was built from
Trees ==
    {[exists |-> TRUE, files |-> fs, gen |-> g] :
        fs \in {x \in SUBSET CandidateFiles : Cardinality(x) <= MaxFiles},
        g \in 1..MaxGen}

FirstTrees == {d \in Trees : d.gen = 1}

Buckets == {NoValue, "", "my-bucket"}
Prefixes == { << >>, <<"s", "i", "t", "e", "/">>, <<"/", "x">> }
DistIds == {NoValue, "", "E1ABC"}

Envs == [bucket : Buckets, prefix : Prefixes, distId : DistIds]

\* DIST_DIR.exists()
DistExistsUnchecked(d) == TRUE
DistExists(d) == d.exists

\* the bytes of a file of the tree d
Body(path, d) == <<path, d.gen>>

NoExit == [kind |-> "none"]
ExitOk == [kind |-> "ok"]

----------------------------------------------------------------------------
(* deploy.py: upload_directory_to_s3 *)

\* DIST_DIR.rglob("*"): every file and every directory below DIST_DIR
Entries(d) ==
    d.files \cup
    UNION {{SubSeq(f, 1, n) : n \in (Len(DistDir) + 1)..(Len(f) - 1)} : f \in d.files}

IsDir(path, d) == path \notin d.files

\* path.relative_to(DIST_DIR)
RelativeTo(path, base) == SubSeq(path, Len(base) + 1, Len(path))

\* key = f"{prefix}{rel.as_posix()}" if prefix else rel.as_posix()
KeyAlwaysSlash(prefix, path) == prefix \o <<Slash>> \o AsPosix(RelativeTo(path, DistDir))
Key(prefix, path) ==
    IF prefix # << >>
    THEN prefix \o AsPosix(RelativeTo(path, DistDir))
    ELSE AsPosix(RelativeTo(path, DistDir))

DotHtml == <<".", "h", "t", "m", "l">>
DotCss == <<".", "c", "s", "s">>
DotJs == <<".", "j", "s">>

NoExtraArgs == [a \in {} |-> ""]
ContentType(t) == [a \in {"ContentType"} |-> t]

\* the extra_args dictionary built from path.suffix
ExtraArgsWithoutJs(path) ==
    LET suffix == Suffix(path[Len(path)])
    IN  IF suffix = DotHtml THEN ContentType("text/html; charset=utf-8")
        ELSE IF suffix = DotCss THEN ContentType("text/css; charset=utf-8")
        ELSE NoExtraArgs
ExtraArgs(path) ==
    LET suffix == Suffix(path[Len(path)])
    IN  IF suffix = DotHtml THEN ContentType("text/html; charset=utf-8")
        ELSE IF suffix = DotCss THEN ContentType("text/css; charset=utf-8")
        ELSE IF suffix = DotJs THEN ContentType("application/javascript; charset=utf-8")
        ELSE NoExtraArgs

\* what a successful s3.upload_file leaves in the bucket
PutObjectKeepExisting(objects, key, body, extra) ==
    LET k2 == IF key \in DOMAIN objects THEN key \o <<"~">> ELSE key
    IN  [k \in DOMAIN objects \cup {k2} |->
            IF k = k2 THEN [body |-> body, meta |-> extra] ELSE objects[k]]
PutObject(objects, key, body, extra) ==
    [k \in DOMAIN objects \cup {key} |->
        IF k = key THEN [body |-> body, meta |-> extra] ELSE objects[k]]

UploadCall(path, outcome) ==
    [src |-> path, bucket |-> env.bucket, key |-> Key(env.prefix, path),
     extra |-> ExtraArgs(path), outcome |-> outcome]

\* `if path.is_dir(): continue`
UploadSkipDir ==
    /\ pc = "Uploading"
    /\ \E path \in todo :
        /\ IsDir(path, dist)
        /\ todo' = todo \ {path}
    /\ UNCHANGED <<env, dist, remote, run, pc, uploadCalls, invCalls, exit, prevPublished>>
    /\ UNCHANGED svars

\* s3.upload_file returned
UploadFileOk ==
    /\ pc = "Uploading"
    /\ \E path \in todo :
        /\ ~IsDir(path, dist)
        /\ remote' = PutObject(remote, Key(env.prefix, path), Body(path, dist), ExtraArgs(path))
        /\ uploadCalls' = Append(uploadCalls, UploadCall(path, "ok"))
        /\ todo' = todo \ {path}
    /\ UNCHANGED <<env, dist, run, pc, invCalls, exit, prevPublished>>
    /\ UNCHANGED svars

\* which exceptions of the try body the `except ClientError` clause handles
Catches(kind) == kind = "ClientError"

\* the exception that leaves a try block guarded by `except ClientError`
\* whose handler raises RuntimeError(message)
Raised(kind, message) ==
    IF Catches(kind)
    THEN [kind |-> "RuntimeError"] @@ message
    ELSE [kind |-> kind]

ErrorKinds == {"ClientError", "OtherError"}

\* s3.upload_file raised, and the loop went on to the next file
UploadFileFailContinue ==
    /\ pc = "Uploading"
    /\ \E path \in todo, kind \in ErrorKinds :
        /\ ~IsDir(path, dist)
        /\ uploadCalls' = Append(uploadCalls, UploadCall(path, kind))
        /\ todo' = todo \ {path}
    /\ UNCHANGED <<env, dist, remote, run, pc, invCalls, exit, prevPublished>>
    /\ UNCHANGED svars

\* s3.upload_file raised, and the failure was noted without raising
UploadFileFailNoted ==
    /\ pc = "Uploading"
    /\ \E path \in todo, kind \in ErrorKinds :
        /\ ~IsDir(path, dist)
        /\ uploadCalls' = Append(uploadCalls, UploadCall(path, kind))
        /\ todo' = todo \ {path}
    /\ pc' = "Failed"
    /\ UNCHANGED <<env, dist, remote, run, invCalls, exit, prevPublished>>
    /\ UNCHANGED svars

\* s3.upload_file raised
UploadFileFail ==
    /\ pc = "Uploading"
    /\ \E path \in todo, kind \in ErrorKinds :
        /\ ~IsDir(path, dist)
        /\ uploadCalls' = Append(uploadCalls, UploadCall(path, kind))
        /\ exit' = Raised(kind, [text |-> "Failed to upload", src |-> path,
                                 key |-> Key(env.prefix, path)])
        /\ todo' = todo \ {path}
    /\ pc' = "Failed"
    /\ UNCHANGED <<env, dist, remote, run, invCalls, prevPublished>>
    /\ UNCHANGED svars

\* the for loop is exhausted and upload_directory_to_s3 returns
UploadReturn ==
    /\ pc = "Uploading"
    /\ todo = {}
    /\ pc' = "Succeeded"
    /\ UNCHANGED <<env, dist, remote, run, todo, uploadCalls, invCalls, exit, prevPublished>>
    /\ UNCHANGED svars

----------------------------------------------------------------------------
(* deploy.py: invalidate_cloudfront *)

CallerRefs == 0..MaxRef       \* os.urandom(8).hex(), from a small space

\* `if not distribution_id: return`
InvalidateSkip ==
    /\ pc = "InvalidationPending"
    /\ Falsy(env.distId)
    /\ pc' = "InvalidationSkipped"
    /\ exit' = ExitOk
    /\ UNCHANGED <<env, dist, remote, run, todo, uploadCalls, invCalls, prevPublished>>
    /\ UNCHANGED svars

InvalidationCall(ref, outcome) ==
    [DistributionId |-> env.distId, Items |-> <<"/*">>, Quantity |-> 1,
     CallerReference |-> ref, outcome |-> outcome]

\* cf.create_invalidation returned
InvalidateOk ==
    /\ pc = "InvalidationPending"
    /\ ~Falsy(env.distId)
    /\ \E ref \in CallerRefs :
        invCalls' = Append(invCalls, InvalidationCall(ref, "ok"))
    /\ pc' = "InvalidationSucceeded"
    /\ exit' = ExitOk
    /\ UNCHANGED <<env, dist, remote, run, todo, uploadCalls, prevPublished>>
    /\ UNCHANGED svars

\* cf.create_invalidation raised
InvalidateFail ==
    /\ pc = "InvalidationPending"
    /\ ~Falsy(env.distId)
    /\ \E ref \in CallerRefs, kind \in ErrorKinds :
        /\ invCalls' = Append(invCalls, InvalidationCall(ref, kind))
        /\ exit' = Raised(kind, [text |-> "Failed to create invalidation"])
    /\ pc' = "InvalidationFailed"
    /\ UNCHANGED <<env, dist, remote, run, todo, uploadCalls, prevPublished>>
    /\ UNCHANGED svars

----------------------------------------------------------------------------
(* deploy.py: main *)

Running == exit = NoExit

\* `if not bucket: raise SystemExit(...)`
MainNoBucket ==
    /\ pc = "NotStarted" /\ Running
    /\ Falsy(env.bucket)
    /\ exit' = [kind |-> "SystemExit",
                text |-> "AWS_S3_BUCKET environment variable is required"]
    /\ UNCHANGED <<env, dist, remote, run, pc, todo, uploadCalls, invCalls, prevPublished>>
    /\ UNCHANGED svars

\* if not DIST_DIR.exists(): raise SystemExit("dist/ not found. ...")
MainNoDist ==
    /\ pc = "NotStarted" /\ Running
    /\ ~Falsy(env.bucket)
    /\ ~DistExists(dist)
    /\ exit' = [kind |-> "SystemExit",
                text |-> "dist/ not found"]
    /\ UNCHANGED <<env, dist, remote, run, pc, todo, uploadCalls, invCalls, prevPublished>>
    /\ UNCHANGED svars

\* main calls upload_directory_to_s3(bucket, prefix)
MainUpload ==
    /\ pc = "NotStarted" /\ Running
    /\ ~Falsy(env.bucket)
    /\ DistExists(dist)
    /\ pc' = "Uploading"
    /\ todo' = Entries(dist)
    /\ UNCHANGED <<env, dist, remote, run, uploadCalls, invCalls, exit, prevPublished>>
    /\ UNCHANGED svars

\* main calls invalidate_cloudfront(distribution_id)
MainInvalidate ==
    /\ pc = "Succeeded"
    /\ pc' = "InvalidationPending"
    /\ UNCHANGED <<env, dist, remote, run, todo, uploadCalls, invCalls, exit, prevPublished>>
    /\ UNCHANGED svars

UploadDonePhases ==
    {"Succeeded", "InvalidationPending", "InvalidationSucceeded",
     "InvalidationSkipped", "InvalidationFailed"}

\* the operator runs the publish entry point again
Rerun ==
    /\ ~Running
    /\ run < MaxRuns
    /\ run' = run + 1
    /\ pc' = "NotStarted"
    /\ exit' = NoExit
    /\ todo' = {}
    /\ uploadCalls' = << >>
    /\ invCalls' = << >>
    /\ prevPublished' =
          IF pc \in UploadDonePhases THEN [known |-> TRUE, dist |-> dist, remote |-> remote]
          ELSE IF pc = "Failed" THEN [known |-> FALSE]
          ELSE prevPublished
    /\ UNCHANGED <<env, dist, remote>>
    /\ UNCHANGED svars

----------------------------------------------------------------------------
(* build.py: build *)

\* clean_dist, copy_assets and render_templates write the tree anew from
\* changed sources: the same pages (the template list is fixed), with the
\* bytes of the sources' next generation. A build from unchanged sources
\* writes the same bytes and changes nothing here.
Build ==
    /\ pc = "NotStarted" /\ Running
    /\ run > 1
    /\ dist.exists
    /\ dist.gen < MaxGen
    /\ dist' = [dist EXCEPT !.gen = dist.gen + 1]
    /\ UNCHANGED <<env, remote, run, pc, todo, uploadCalls, invCalls, exit, prevPublished>>
    /\ UNCHANGED svars

----------------------------------------------------------------------------
(* The publisher's runs *)

StaleObject == [body |-> << << >>, 0 >>, meta |-> ContentType("text/plain")]

\* buckets a first publish may find: empty, or holding one object of an
\* earlier deployment, under a key of this one or under another key
InitialRemotes(e) ==
    {[k \in ks |-> StaleObject] :
        ks \in {{}, {<<"o", "l", "d">>}, {Key(e.prefix, FileCss)}}}

ServeIdle ==
    /\ spc = "off" /\ argv = NoArgument /\ port = 0 /\ portState = "free"
    /\ distServed = FALSE /\ interrupts = 0 /\ served = 0 /\ output = << >>

Init ==
    /\ env \in Envs
    /\ dist \in {NoDist} \cup FirstTrees
    /\ remote \in InitialRemotes(env)
    /\ run = 1
    /\ pc = "NotStarted"
    /\ todo = {}
    /\ uploadCalls = << >>
    /\ invCalls = << >>
    /\ exit = NoExit
    /\ prevPublished = [known |-> FALSE]
    /\ ServeIdle

Next ==
    \/ MainNoBucket
    \/ MainNoDist
    \/ MainUpload
    \/ UploadSkipDir
    \/ UploadFileOk
    \/ UploadFileFail
    \/ UploadReturn
    \/ MainInvalidate
    \/ InvalidateSkip
    \/ InvalidateOk
    \/ InvalidateFail
    \/ Rerun
    \/ Build

Spec == Init /\ [][Next]_vars

----------------------------------------------------------------------------
(* serve.py *)

DefaultPort == 8000

Digits == <<"0", "1", "2", "3", "4", "5", "6", "7", "8", "9">>

IsDigit(c) == \E i \in 1..Len(Digits) : Digits[i] = c

DigitValue(c) == (CHOOSE i \in 1..Len(Digits) : Digits[i] = c) - 1

\* int(text) raises ValueError unless the text is a numeral
IsNumeral(text) == Len(text) > 0 /\ \A i \in 1..Len(text) : IsDigit(text[i])

RECURSIVE ParseInt(_)
ParseInt(text) ==
    IF Len(text) = 0 THEN 0
    ELSE 10 * ParseInt(SubSeq(text, 1, Len(text) - 1)) + DigitValue(text[Len(text)])

Arguments == {NoArgument, <<"8", "0", "0", "1">>, <<"9", "0">>, <<"a", "b", "c">>, <<"8", "0", "x">>}

PortStates == {"free", "in use", "denied"}

\* print(...)
WriteLine(line) == output' = Append(output, line)

\* `except ValueError: print("Invalid port number"); sys.exit(1)`
ServeBadPort ==
    /\ spc = "main"
    /\ argv # NoArgument /\ ~IsNumeral(argv)
    /\ WriteLine([line |-> "Invalid port number"])
    /\ spc' = "exit 1"
    /\ UNCHANGED <<argv, port, portState, distServed, interrupts, served>>
    /\ UNCHANGED pvars

\* serve_site(port) is called
ServeCall ==
    /\ spc = "main"
    /\ argv = NoArgument \/ IsNumeral(argv)
    /\ port' = IF argv = NoArgument THEN DefaultPort ELSE ParseInt(argv)
    /\ spc' = "serve_site"
    /\ UNCHANGED <<argv, portState, distServed, interrupts, served, output>>
    /\ UNCHANGED pvars

\* `if not dist_dir.exists(): print(...); return`
ServeNoDist ==
    /\ spc = "serve_site"
    /\ ~distServed
    /\ WriteLine([line |-> "dist directory not found"])
    /\ spc' = "exit 0"
    /\ UNCHANGED <<argv, port, portState, distServed, interrupts, served>>
    /\ UNCHANGED pvars

\* the banner is printed and the try block is entered
ServeBanner ==
    /\ spc = "serve_site"
    /\ distServed
    /\ WriteLine([line |-> "Starting server", port |-> port])
    /\ spc' = "binding"
    /\ UNCHANGED <<argv, port, portState, distServed, interrupts, served>>
    /\ UNCHANGED pvars

\* HTTPServer(('localhost', port), ...) returned: the listener is bound
ServeBind ==
    /\ spc = "binding"
    /\ portState = "free"
    /\ spc' = "bound"
    /\ UNCHANGED <<argv, port, portState, distServed, interrupts, served, output>>
    /\ UNCHANGED pvars

\* HTTPServer(...) raised OSError
ServeBindError ==
    /\ spc = "binding"
    /\ portState # "free"
    /\ WriteLine(IF portState = "in use"
             THEN [line |-> "Port is already in use", retry |-> port + 1]
             ELSE [line |-> "Server error"])
    /\ spc' = "exit 0"
    /\ UNCHANGED <<argv, port, portState, distServed, interrupts, served>>
    /\ UNCHANGED pvars

\* the inner try block is entered and webbrowser.open is called
ServeOpenBrowser ==
    /\ spc = "bound"
    /\ spc' = "opening"
    /\ UNCHANGED <<argv, port, portState, distServed, interrupts, served, output>>
    /\ UNCHANGED pvars

\* webbrowser.open returned or raised; `except: pass`; server.serve_forever()
ServeForever ==
    /\ spc = "opening"
    /\ spc' = "serving"
    /\ UNCHANGED <<argv, port, portState, distServed, interrupts, served, output>>
    /\ UNCHANGED pvars

\* serve_forever handles one request
ServeRequest ==
    /\ spc = "serving"
    /\ served < MaxRequests
    /\ served' = served + 1
    /\ UNCHANGED <<spc, argv, port, portState, distServed, interrupts, output>>
    /\ UNCHANGED pvars

\* where a KeyboardInterrupt raised at position p is handled:
\*   before the outer try block nothing handles it;
\*   inside the inner try block the bare `except:` handles it, and passes;
\*   elsewhere in the outer try block `except KeyboardInterrupt` handles it
Handler(p) ==
    CASE p \in {"main", "serve_site"} -> "none"
      [] p = "opening" -> "inner"
      [] p \in {"binding", "bound", "serving"} -> "outer"

\* the operator's interrupt signal is delivered
ServeInterrupt ==
    /\ spc \in {"main", "serve_site", "binding", "bound", "opening", "serving"}
    /\ interrupts' = interrupts + 1
    /\ CASE Handler(spc) = "none" ->
              /\ spc' = "traceback"
              /\ UNCHANGED output
         [] Handler(spc) = "inner" ->
              /\ spc' = "serving"
              /\ UNCHANGED output
         [] Handler(spc) = "outer" ->
              /\ spc' = "exit 0"
              /\ WriteLine([line |-> "Server stopped by user"])
    /\ UNCHANGED <<argv, port, portState, distServed, served>>
    /\ UNCHANGED pvars

PublisherIdle ==
    /\ env = [bucket |-> NoValue, prefix |-> << >>, distId |-> NoValue]
    /\ dist = NoDist
    /\ remote = << >>
    /\ run = 1 /\ pc = "NotStarted" /\ todo = {}
    /\ uploadCalls = << >> /\ invCalls = << >>
    /\ exit = NoExit /\ prevPublished = [known |-> FALSE]

InitServe ==
    /\ PublisherIdle
    /\ spc = "main"
    /\ argv \in Arguments
    /\ port = 0
    /\ portState \in PortStates
    /\ distServed \in BOOLEAN
    /\ interrupts = 0
    /\ served = 0
    /\ output = << >>

NextServe ==
    \/ ServeBadPort
    \/ ServeCall
    \/ ServeNoDist
    \/ ServeBanner
    \/ ServeBind
    \/ ServeBindError
    \/ ServeOpenBrowser
    \/ ServeForever
    \/ ServeRequest
    \/ ServeInterrupt

SpecServe == InitServe /\ [][NextServe]_vars

----------------------------------------------------------------------------
(* Properties of the publisher *)

Calls(log) == {log[i] : i \in 1..Len(log)}

SitePrefix == <<"s", "i", "t", "e", "/">>

\* C1: when AWS_S3_BUCKET is unset or empty, or dist/ does not exist, the run
\* can only end with the fatal SystemExit, it never leaves NotStarted, and no
\* upload call and no invalidation call is made in it.
C1_ConfigErrorBeforeAnyCall ==
    (env.bucket \in {NoValue, ""} \/ ~dist.exists) =>
        /\ pc = "NotStarted"
        /\ uploadCalls = << >>
        /\ invCalls = << >>
        /\ IF Running THEN ENABLED (MainNoBucket \/ MainNoDist)
                      ELSE exit.kind = "SystemExit"

C1_Witness ==
    /\ exit.kind = "SystemExit"
    /\ ~dist.exists
    /\ env.bucket = "my-bucket"
    /\ env.distId = "E1ABC"

\* C2 (as stated): every finished publish invocation has made no invalidation
\* call when CLOUDFRONT_DIST_ID is unset or empty, and exactly one otherwise.
C2_OnePerInvocation ==
    ~Running =>
        Len(invCalls) = IF env.distId \in {NoValue, ""} THEN 0 ELSE 1

\* C2 (amended): no invocation makes more than one invalidation call; none is
\* made when CLOUDFRONT_DIST_ID is unset or empty; a finished invocation has
\* made exactly one if and only if the identifier is non-empty and its upload
\* phase completed (no configuration error, no failed upload).
C2_OneAfterCompletedUpload ==
    /\ Len(invCalls) <= 1
    /\ env.distId \in {NoValue, ""} => invCalls = << >>
    /\ ~Running =>
          (Len(invCalls) = 1 <=>
              env.distId \notin {NoValue, ""} /\ pc \in UploadDonePhases)

C2_Witness ==
    /\ ~Running
    /\ pc = "InvalidationSucceeded"
    /\ Len(invCalls) = 1
    /\ env.distId = "E1ABC"

InvalidationEnds ==
    {"InvalidationSucceeded", "InvalidationSkipped", "InvalidationFailed"}

\* C3 (as stated): every finished run that entered Uploading has passed
\* through InvalidationPending and ended in InvalidationSucceeded,
\* InvalidationSkipped or InvalidationFailed.
C3_EveryRunEndsInInvalidation ==
    (~Running /\ pc # "NotStarted") => pc \in InvalidationEnds

PhaseTransitions ==
    {<<"NotStarted", "Uploading">>,
     <<"Uploading", "Succeeded">>,
     <<"Uploading", "Failed">>,
     <<"Succeeded", "InvalidationPending">>}
    \cup {<<"InvalidationPending", e>> : e \in InvalidationEnds}

\* C3 (amended): within a run the phase changes only along
\* NotStarted -> Uploading -> (Succeeded | Failed) and
\* Succeeded -> InvalidationPending -> (InvalidationSucceeded |
\* InvalidationSkipped | InvalidationFailed); Failed ends the run at once, and
\* a run ends only in NotStarted (configuration error), in Failed or in one of
\* the three invalidation outcomes.
C3_PhaseStep ==
    /\ (run' = run /\ pc' # pc) => <<pc, pc'>> \in PhaseTransitions
    /\ pc' = "Failed" => ~Running'
    /\ ~Running' => pc' \in {"NotStarted", "Failed"} \cup InvalidationEnds
    /\ (~Running /\ run' = run) => pc' = pc

C3_PhaseMachine == [][C3_PhaseStep]_vars

C3_Witness ==
    /\ ~Running
    /\ pc = "Failed"
    /\ \E c \in Calls(uploadCalls) : c.outcome = "ok"

\* C4: whatever failure upload_file raised for a file, the run has ended
\* failed with a RuntimeError that names that file's source path and its key.
C4_UploadFailureWrapped ==
    \A c \in Calls(uploadCalls) :
        c.outcome # "ok" =>
            /\ pc = "Failed"
            /\ ~Running
            /\ exit.kind = "RuntimeError"
            /\ exit.src = c.src
            /\ exit.key = c.key

\* C5: when the invalidation call has failed, the run has ended with a
\* RuntimeError and the bucket holds every object as this run's uploads
\* wrote it.
C5_InvalidationFailureWrappedNoRollback ==
    pc = "InvalidationFailed" =>
        /\ exit.kind = "RuntimeError"
        /\ \A c \in Calls(uploadCalls) :
              /\ c.key \in DOMAIN remote
              /\ remote[c.key] = [body |-> Body(c.src, dist), meta |-> c.extra]

\* the relative path of each file of the model, written with forward slashes
PosixName(path) ==
    CASE path = FileBHtml -> <<"a", "/", "b", ".", "h", "t", "m", "l">>
      [] path = FileCss -> <<"s", "t", "y", "l", "e", "s", ".", "c", "s", "s">>
      [] path = FileJs -> <<"a", "p", "p", ".", "j", "s">>
      [] path = FileJson -> <<"d", "a", "t", "a", ".", "j", "s", "o", "n">>
      [] path = FileDotHtml -> <<".", "h", "t", "m", "l">>

\* C6: the key of every upload call is the prefix followed verbatim by the
\* file's path below dist/ written with forward slashes; with an empty prefix
\* it is that path alone; a key begins with a slash only when the prefix does;
\* dist/a/b.html under the prefix "site/" is uploaded as site/a/b.html.
C6_KeyIsPrefixThenPosixPath ==
    \A c \in Calls(uploadCalls) :
        /\ c.key = env.prefix \o PosixName(c.src)
        /\ env.prefix = << >> => c.key = PosixName(c.src)
        /\ c.key[1] = Slash => (env.prefix # << >> /\ env.prefix[1] = Slash)
        /\ (c.src = FileBHtml /\ env.prefix = SitePrefix) =>
              c.key = <<"s", "i", "t", "e", "/", "a", "/", "b", ".", "h", "t", "m", "l">>

C6_Witness ==
    /\ env.prefix = SitePrefix
    /\ \E c \in Calls(uploadCalls) : c.src = FileBHtml /\ c.outcome = "ok"
    /\ <<"s", "i", "t", "e", "/", "a", "/", "b", ".", "h", "t", "m", "l">> \in DOMAIN remote

EndsWith(s, p) == Len(s) >= Len(p) /\ SubSeq(s, Len(s) - Len(p) + 1, Len(s)) = p

\* the name is a non-empty stem followed by the extension
HasExtension(name, ext) == EndsWith(name, ext) /\ Len(name) > Len(ext)

\* C7: every upload call carries the content type of the file's extension:
\* .html, .css and .js get their three types, every other file gets no
\* ContentType at all, and a successful upload stores exactly that metadata.
C7_ContentTypeByExtension ==
    \A c \in Calls(uploadCalls) :
        LET name == c.src[Len(c.src)]
        IN  /\ c.extra =
                  IF HasExtension(name, DotHtml)
                  THEN [ContentType |-> "text/html; charset=utf-8"]
                  ELSE IF HasExtension(name, DotCss)
                  THEN [ContentType |-> "text/css; charset=utf-8"]
                  ELSE IF HasExtension(name, DotJs)
                  THEN [ContentType |-> "application/javascript; charset=utf-8"]
                  ELSE << >>
            /\ c.outcome = "ok" => remote[c.key].meta = c.extra

C7_Witness ==
    /\ \E c \in Calls(uploadCalls) :
          c.src = FileJs /\ c.outcome = "ok" /\ DOMAIN c.extra = {"ContentType"}
    /\ \E c \in Calls(uploadCalls) :
          c.src = FileJson /\ c.outcome = "ok" /\ DOMAIN c.extra = {}

\* C8: once the upload phase of a run has completed, if the previous run's
\* upload phase completed too and dist/ holds what it held then (the bucket
\* name and the prefix are those of the session), the bucket's objects (keys,
\* bytes, metadata) are exactly what they were after the previous run.
C8_RepublishIsIdempotent ==
    (/\ pc \in UploadDonePhases
     /\ prevPublished.known
     /\ prevPublished.dist = dist) => remote = prevPublished.remote

C8_Witness ==
    /\ pc \in UploadDonePhases
    /\ prevPublished.known
    /\ prevPublished.dist = dist
    /\ Len(uploadCalls) = 2
    /\ Cardinality(DOMAIN remote) = 3

\* C10: an invalidation call is made only after every file of dist/ was
\* uploaded successfully in this run; a failed upload is the last upload call
\* of its run, ends the run failed, and no invalidation call is made in it.
C10_InvalidateOnlyAfterAllUploads ==
    /\ invCalls # << >> =>
          /\ \A f \in dist.files :
                \E c \in Calls(uploadCalls) : c.src = f /\ c.outcome = "ok"
          /\ \A c \in Calls(uploadCalls) : c.outcome = "ok"
    /\ \A i \in 1..Len(uploadCalls) :
          uploadCalls[i].outcome # "ok" =>
              /\ i = Len(uploadCalls)
              /\ invCalls = << >>
              /\ pc = "Failed"
              /\ ~Running

C10_Witness ==
    /\ pc = "Failed"
    /\ todo # {}
    /\ Len(uploadCalls) = 2
    /\ env.distId = "E1ABC"

----------------------------------------------------------------------------
(* Properties of the preview server *)

\* C9: once an interrupt has been delivered to a process that got as far as
\* the try block, the server has stopped and the last line printed is the
\* stop confirmation; in particular it is not in the serve loop.
C9_InterruptStopsServer ==
    (interrupts > 0 /\ spc # "traceback") =>
        /\ spc = "exit 0"
        /\ output[Len(output)] = [line |-> "Server stopped by user"]

====
